---------------------------- MODULE Spec2Model ----------------------------
(***************************************************************************)
(* Model of src/src/d2c_phase5.py: the D2C funnel / SEO analysis script.   *)
(*                                                                         *)
(* Numbers.  A float of the script is held exactly: a finite value is the  *)
(* rational n/d in lowest terms, [t |-> "f", n |-> n, d |-> d] with d > 0; *)
(* NaN (the missing marker, np.nan) is [t |-> "nan"]; Python's None is     *)
(* [t |-> "none"]; the outcome of an unguarded float division by zero      *)
(* (ZeroDivisionError on a Python float, +-inf or nan on a numpy float) is  *)
(* [t |-> "zerodiv"].                                                      *)
(*                                                                         *)
(* A z-score is (value - mean) / std where std is a square root, so it is   *)
(* held exactly as its sign s and its square n/d.                          *)
(*                                                                         *)
(* A confidence is held in hundredths: 50 stands for 0.5, 99 for 0.99.     *)
(*                                                                         *)
(* The run is checked in this exact arithmetic.  One computation whose      *)
(* binary64 rounding changes an outcome of the script, the mean of a       *)
(* column of equal values, is modelled in binary64 in its own              *)
(* specification, SpecFloat.                                               *)
(*                                                                         *)
(* Specifications: Spec is a run of the script, SpecUtil an evaluation of  *)
(* one of its utility functions, SpecAll either, SpecFloat the confidence  *)
(* entry of a constant column in binary64.                                 *)
(***************************************************************************)
EXTENDS Integers, Sequences, FiniteSets, TLC

\* ------------------------------------------------------------------ bounds
\* the utility-function inputs: z ranges over k/ZDen for |k| <= ZSpan*ZDen
ZDen == 4
ZSpan == 7
\* a z far beyond the cap of z_to_confidence
ZFar == 100

\* ------------------------------------------------------- exact arithmetic
RECURSIVE GCD(_, _)
GCD(a, b) == IF b = 0 THEN a ELSE GCD(b, a % b)

Abs(i) == IF i < 0 THEN -i ELSE i

\* the float n/d, d # 0, in lowest terms with a positive denominator
Q(n, d) ==
    LET g == GCD(Abs(n), Abs(d))
        sg == IF d < 0 THEN -1 ELSE 1
    IN  [t |-> "f", n |-> sg * (n \div g), d |-> Abs(d) \div g]

Num(i) == [t |-> "f", n |-> i, d |-> 1]
NaN == [t |-> "nan", n |-> 0, d |-> 1]
None == [t |-> "none", n |-> 0, d |-> 1]
ZeroDiv == [t |-> "zerodiv", n |-> 0, d |-> 1]
TypeErr == [t |-> "typeerror", n |-> 0, d |-> 1]
\* a text cell: the n-th category label
Str(i) == [t |-> "str", n |-> i, d |-> 1]
\* a text cell: the percent string "<i>%"
Pct(i) == [t |-> "pct", n |-> i, d |-> 1]

isnan(x) == x.t = "nan"
IsNum(x) == x.t = "f"

\* float arithmetic on operands that are not both finite: an operand that is
\* not a float raises TypeError, a failed division stays failed, NaN propagates
Bad(x, y) ==
    IF x.t \in {"none", "str", "pct", "typeerror"} \/ y.t \in {"none", "str", "pct", "typeerror"}
    THEN TypeErr
    ELSE IF x.t = "zerodiv" \/ y.t = "zerodiv" THEN ZeroDiv
    ELSE NaN
FAdd(x, y) == IF IsNum(x) /\ IsNum(y) THEN Q(x.n * y.d + y.n * x.d, x.d * y.d) ELSE Bad(x, y)
FSub(x, y) == IF IsNum(x) /\ IsNum(y) THEN Q(x.n * y.d - y.n * x.d, x.d * y.d) ELSE Bad(x, y)
FMul(x, y) == IF IsNum(x) /\ IsNum(y) THEN Q(x.n * y.n, x.d * y.d) ELSE Bad(x, y)
\* a / b as the interpreter evaluates it, with no guard: a float over zero
\* raises ZeroDivisionError, NaN over zero included
FDiv(x, y) ==
    IF IsNum(x) /\ IsNum(y)
    THEN IF y.n = 0 THEN ZeroDiv ELSE Q(x.n * y.d, x.d * y.n)
    ELSE IF isnan(x) /\ IsNum(y) /\ y.n = 0 THEN ZeroDiv
    ELSE Bad(x, y)
\* x < y and x > y on floats: False when either side is NaN
FLess(x, y) == IsNum(x) /\ IsNum(y) /\ x.n * y.d < y.n * x.d
FGreater(x, y) == FLess(y, x)

\* ------------------------------------------------------------------- UTIL
\* b in (0, None, np.nan): == against 0, identity against None and np.nan.
\* A NaN cell of a row is a float NaN object other than np.nan; np.nan itself
\* is marked by n = 1.
NpNaN == [t |-> "nan", n |-> 1, d |-> 1]
InZeroNoneNan(b) == (IsNum(b) /\ b.n = 0) \/ b.t = "none" \/ b = NpNaN

\* safe_div with the zero test dropped
safe_div_NoZeroGuard(a, b) == IF ~(b.t = "none" \/ b = NpNaN) THEN FDiv(a, b) ELSE NaN

\* def safe_div(a, b): return a / b if b not in (0, None, np.nan) else np.nan
safe_div(a, b) == IF ~InZeroNoneNan(b) THEN FDiv(a, b) ELSE NaN

\* a z-score: nan, or a double, given by the sign s and the square n/d of the
\* real number it stands for.  Where that number is a tie of line 47,
\* |z| = (6k - 3)/49, the double is a neighbour of it and the double
\* arithmetic of 0.5 + (a / 6.0) * 0.49 lands above the tie (up) or not.
ZNaN == [nan |-> TRUE, s |-> 0, n |-> 0, d |-> 1, up |-> FALSE]
ZReal(s, sq) ==
    [nan |-> FALSE, s |-> IF sq.n = 0 THEN 0 ELSE s, n |-> sq.n, d |-> sq.d, up |-> FALSE]
\* the z-score k/den
ZOf(k, den) ==
    ZReal(IF k < 0 THEN -1 ELSE 1, Q(k * k, den * den))
ZNeg(z) == [z EXCEPT !.s = -z.s]
\* 49a/6 is half way between two hundredths, for a given by its square n/d
IsTie(n, d) == \E k \in 1..49 : 2401 * n = (6 * k - 3) * (6 * k - 3) * d
\* the neighbour of z that lands above the tie, z itself where there is none
ZUp(z) == [z EXCEPT !.up = ~z.nan /\ IsTie(z.n, z.d)]
\* |z1| <= |z2|: of two doubles at one tie the one landing above is the larger
ZAbsLeq(z1, z2) ==
    \/ z1.n * z2.d < z2.n * z1.d
    \/ z1.n * z2.d = z2.n * z1.d /\ (z1.up => z2.up)

\* round(0.5 + (a / 6.0) * 0.49, 2) in hundredths, for a >= 0 given by its
\* square a2 = n/d: 50 + 49a/6 rounds to 50 + j, j the number of k in 1..49
\* with 49a/6 beyond k - 1/2, that is 2401 a^2 > (6k - 3)^2, or on it with
\* the double arithmetic landing above the tie
RoundConf(a2n, a2d, up) ==
    50 + Cardinality({k \in 1..49 :
                         \/ 2401 * a2n > (6 * k - 3) * (6 * k - 3) * a2d
                         \/ 2401 * a2n = (6 * k - 3) * (6 * k - 3) * a2d /\ up})

\* the same, for a signed a (no abs() taken): a negative a maps below 0.5
RoundConfSigned(s, a2n, a2d, up) ==
    IF s >= 0 THEN RoundConf(a2n, a2d, up)
    ELSE 50 - Cardinality({k \in 1..49 : 2401 * a2n >= (6 * k - 3) * (6 * k - 3) * a2d})

\* z_to_confidence without abs(): a = min(6.0, z)
z_to_confidence_NoAbs(z) ==
    IF z.nan THEN 50
    ELSE IF z.s >= 0 /\ z.n > 36 * z.d THEN RoundConf(36, 1, FALSE)
    ELSE RoundConfSigned(z.s, z.n, z.d, z.up)

\* z_to_confidence with the cap at 5.0 instead of 6.0
z_to_confidence_Cap5(z) ==
    IF z.nan THEN 50
    ELSE IF z.n > 25 * z.d THEN RoundConf(25, 1, FALSE) ELSE RoundConf(z.n, z.d, z.up)

\* z_to_confidence with a z beyond the cap discarded instead of capped
z_to_confidence_CapToZero(z) ==
    IF z.nan THEN 50
    ELSE IF z.n > 36 * z.d THEN RoundConf(0, 1, FALSE) ELSE RoundConf(z.n, z.d, z.up)

\* z_to_confidence returning 0.0 for a missing z
z_to_confidence_NanZero(z) ==
    IF z.nan THEN 0
    ELSE LET a2 == IF z.n > 36 * z.d THEN Q(36, 1) ELSE Q(z.n, z.d)
         IN  RoundConf(a2.n, a2.d, z.up)

\* def z_to_confidence(z)
z_to_confidence(z) ==
    IF z.nan THEN 50                               \* if np.isnan(z): return 0.5
    ELSE LET a2 == IF z.n > 36 * z.d THEN Q(36, 1) ELSE Q(z.n, z.d)   \* a = min(6.0, abs(z))
         IN  RoundConf(a2.n, a2.d, z.up)


\* ------------------------------------------------------------ the table
\* the longest table of several records
MaxRows == 3
MaxAbsent == 3

\* the category labels of the input, in lexical order, and the default label
CatLabels == <<"A", "B", "C", "Unknown">>
\* line 26
HF_MODEL == "google/flan-t5-base"
\* what the generator returns for a prompt: a text, with or without
\* surrounding white space
GeneratedText == "generated_text"
GeneratedTexts == {GeneratedText, " generated_text "}
\* .strip() of line 235: the text without its surrounding white space
strip(text) == IF text = " generated_text " THEN "generated_text" ELSE text
Unknown == Str(Len(CatLabels))

VARIABLES
    pc,         \* the section of the script that runs next
    sheet,      \* Sheet1 of the workbook: [cols, rows]
    d2c_df,     \* the frame: [cols |-> set of column names, rows |-> Seq of rows]
    col_map,    \* logical name -> column found for it
    seo_agg,    \* the category aggregates, sorted by score
    insights,   \* [summary, categories]
    files,      \* the output files written so far
    excel_exists, \* EXCEL_PATH.exists()
    missing,    \* the minimal columns the warning of line 102 lists
    creatives,  \* the generated creatives, one per call that returned
    gen_calls,  \* the labels the generator was called for, in call order
    creatives_txt, \* the blocks written to the creatives file
    error,      \* the exception that ended the run, NoError while there is none
    u_call,     \* utility evaluation: the function under evaluation
    u_args,     \* utility evaluation: its arguments
    u_ret       \* utility evaluation: what it returned

vars ==
    <<pc, sheet, d2c_df, col_map, seo_agg, insights, files, excel_exists, missing,
      creatives, gen_calls, creatives_txt, error, u_call, u_args, u_ret>>
runVars ==
    <<pc, sheet, d2c_df, col_map, seo_agg, insights, files, excel_exists, missing,
      creatives, gen_calls, creatives_txt, error>>
\* what a section of the script leaves alone
inputVars == <<sheet, excel_exists>>
outVars == <<files, creatives, gen_calls, creatives_txt, error>>
utilVars == <<u_call, u_args, u_ret>>

\* series helpers (pandas semantics: NaN is skipped)
RECURSIVE SumSeq(_)
SumSeq(s) == IF s = <<>> THEN Num(0) ELSE FAdd(Head(s), SumSeq(Tail(s)))
notna(x) == ~isnan(x)
dropna(s) == SelectSeq(s, notna)
\* Series.sum(): NaN skipped, 0 when nothing is left
SeriesSum(s) == SumSeq(dropna(s))
\* Series.mean(): NaN skipped, NaN when nothing is left
SeriesMean(s) ==
    LET v == dropna(s) IN IF Len(v) = 0 THEN NaN ELSE FDiv(SumSeq(v), Num(Len(v)))
\* the sample variance (ddof=1) in place of the population variance
SeriesVar0_Sample(s) ==
    LET v == dropna(s)
        m == SeriesMean(s)
        sq(x) == FMul(FSub(x, m), FSub(x, m))
    IN  IF Len(v) = 0 THEN NaN
        ELSE FDiv(SumSeq([i \in 1..Len(v) |-> sq(v[i])]), Num(Len(v) - 1))

\* Series.std(ddof=0), squared: the population variance of the non-NaN values
SeriesVar0(s) ==
    LET v == dropna(s)
        m == SeriesMean(s)
        sq(x) == FMul(FSub(x, m), FSub(x, m))
    IN  IF Len(v) = 0 THEN NaN
        ELSE FDiv(SumSeq([i \in 1..Len(v) |-> sq(v[i])]), Num(Len(v)))

Column(rows, c) == [i \in 1..Len(rows) |-> rows[i][c]]
SetCol(row, c, v) == [x \in (DOMAIN row) \cup {c} |-> IF x = c THEN v ELSE row[x]]
\* df[c] = vals, one value per row
AddCol(df, c, vals) ==
    [cols |-> df.cols \cup {c},
     rows |-> [i \in 1..Len(df.rows) |-> SetCol(df.rows[i], c, vals[i])]]

\* pd.to_numeric(errors="coerce") on one cell: text that is no number -> NaN
to_numeric(x) == IF IsNum(x) THEN x ELSE NaN
\* the missing cells left missing instead of zero-filled
fillna0_Keep(x) == x
fillna0(x) == IF isnan(x) THEN Num(0) ELSE x

\* ------------------------------------------- MAP/VERIFY REQUIRED COLUMNS
expected ==
    [spend_usd |-> <<"spend_usd", "spend", "ad_spend", "cost_usd">>,
     impressions |-> <<"impressions", "imps">>,
     clicks |-> <<"clicks">>,
     installs |-> <<"installs">>,
     signups |-> <<"signups">>,
     first_purchase |-> <<"first_purchase", "purchases", "conversions">>,
     repeat_purchase |-> <<"repeat_purchase", "repeat_purchases">>,
     revenue_usd |-> <<"revenue_usd", "revenue", "revenue_usd_total">>,
     seo_category |-> <<"seo_category", "category", "seo_cat">>,
     avg_position |-> <<"avg_position", "average_position", "avg_pos">>,
     monthly_search_volume |-> <<"monthly_search_volume", "search_volume", "monthly_searches">>,
     conversion_rate |-> <<"conversion_rate", "conv_rate">>,
     campaign_id |-> <<"campaign_id", "campaign">>,
     channel |-> <<"channel", "traffic_channel">>]

minimal_needed ==
    {"spend_usd", "clicks", "impressions", "revenue_usd", "first_purchase", "repeat_purchase",
     "monthly_search_volume", "avg_position", "conversion_rate", "seo_category"}

numeric_cols ==
    {"spend_usd", "impressions", "clicks", "installs", "signups", "first_purchase",
     "repeat_purchase", "revenue_usd", "avg_position", "monthly_search_volume",
     "conversion_rate"}
count_cols == {"impressions", "clicks", "installs", "first_purchase", "repeat_purchase"}
metrics_for_conf == <<"opportunity_score", "roas", "cac_usd", "ltv_per_install", "repeat_rate">>

\* str.strip() and str.lower() on the header names of the sheets: a name
\* written with padding or capitals, every other name is returned as it is
str_strip(c) ==
    CASE c = " Clicks " -> "Clicks"
      [] OTHER -> c
str_lower(c) ==
    CASE c = "Spend_USD" -> "spend_usd"
      [] c = "SPEND" -> "spend"
      [] c = "Spend" -> "spend"
      [] c = "Cost_USD" -> "cost_usd"
      [] c = "COST_USD" -> "cost_usd"
      [] c = "Clicks" -> "clicks"
      [] c = " Clicks " -> " clicks "
      [] c = "Category" -> "category"
      [] c = "SEO_Cat" -> "seo_cat"
      [] c = "Revenue" -> "revenue"
      [] OTHER -> c
\* lines 65-67: c.strip(), then c.lower().strip()
NormalizeName(c) == str_strip(str_lower(str_strip(c)))
NormalizeColumns(df) ==
    [cols |-> {NormalizeName(c) : c \in df.cols},
     rows |-> [i \in 1..Len(df.rows) |->
                 [k \in {NormalizeName(c) : c \in df.cols} |->
                     df.rows[i][CHOOSE c \in df.cols : NormalizeName(c) = k]]]]

\* the last candidate that is a column in place of the first
RECURSIVE FirstPresent_Last(_, _)
FirstPresent_Last(cands, cols) ==
    IF cands = <<>> THEN ""
    ELSE IF cands[Len(cands)] \in cols THEN cands[Len(cands)]
    ELSE FirstPresent_Last(SubSeq(cands, 1, Len(cands) - 1), cols)

\* the first candidate that is a column, "" when there is none
RECURSIVE FirstPresent(_, _)
FirstPresent(cands, cols) ==
    IF cands = <<>> THEN ""
    ELSE IF Head(cands) \in cols THEN Head(cands)
    ELSE FirstPresent(Tail(cands), cols)

\* col_map as lines 88-96 build it
ResolveColumns(cols) ==
    LET found == [l \in DOMAIN expected |-> FirstPresent(expected[l], cols)]
        have == {l \in DOMAIN expected : found[l] # ""}
    IN  [l \in have |-> found[l]]

\* find_col(df, candidates), columns in frame order: the dict of line 31 keeps
\* the last column of each lowercased name
NotFound == [found |-> FALSE, col |-> ""]
RECURSIVE find_col(_, _)
find_col(columns, candidates) ==
    LET hit(cand) == {i \in 1..Len(columns) : str_lower(columns[i]) = str_lower(cand)}
        Last(S) == CHOOSE i \in S : \A j \in S : j <= i
    IN  IF candidates = <<>> THEN NotFound
        ELSE IF hit(Head(candidates)) # {}
             THEN [found |-> TRUE, col |-> columns[Last(hit(Head(candidates)))]]
        ELSE find_col(columns, Tail(candidates))

\* d2c_df.rename(columns={col_map[k]: k for k in col_map})
Renamed(c, cm) ==
    IF \E l \in DOMAIN cm : cm[l] = c THEN CHOOSE l \in DOMAIN cm : cm[l] = c ELSE c
RenameRow(row, cm) ==
    [k \in {Renamed(c, cm) : c \in DOMAIN row} |->
        row[CHOOSE c \in DOMAIN row : Renamed(c, cm) = k]]


\* ---------------------------------------------------------------- METRICS
ctr(r) == safe_div(r["clicks"], r["impressions"])
cvr_click_to_install(r) == safe_div(r["installs"], r["clicks"])

\* installs added to first_purchase instead of standing in for it
conversions_for_cac_Sum(r) == FAdd(r["first_purchase"], r["installs"])

\* d2c_df["first_purchase"].where(d2c_df["first_purchase"] > 0, d2c_df["installs"])
conversions_for_cac(r) ==
    IF FGreater(r["first_purchase"], Num(0)) THEN r["first_purchase"] ELSE r["installs"]

cac_usd(r) == safe_div(r["spend_usd"], r["conversions_for_cac"])
\* the revenue per install in place of the revenue per unit of spend
roas_PerInstall(r) == safe_div(r["revenue_usd"], r["installs"])
roas(r) == safe_div(r["revenue_usd"], r["spend_usd"])
ltv_per_install(r) == safe_div(r["revenue_usd"], r["installs"])
repeat_rate(r) == safe_div(r["repeat_purchase"], r["first_purchase"])

\* opportunity_score with a missing avg_position left to propagate
opportunity_score_NoDefault(r) ==
    safe_div(FMul(r["monthly_search_volume"],
                  IF ~isnan(r["conversion_rate"]) THEN r["conversion_rate"] ELSE Num(0)),
             FAdd(r["avg_position"], Num(1)))

\* monthly_search_volume * conversion_rate / (avg_position + 1), lines 145-148
opportunity_score(r) ==
    safe_div(FMul(r["monthly_search_volume"],
                  IF ~isnan(r["conversion_rate"]) THEN r["conversion_rate"] ELSE Num(0)),
             IF ~isnan(r["avg_position"]) THEN FAdd(r["avg_position"], Num(1)) ELSE Num(1))

\* ----------------------------------------------------------- AGGREGATIONS
\* d2c_df[d2c_df["seo_category"] == cat]: NaN equals nothing, itself included
RowsOf(rows, key) == SelectSeq(rows, LAMBDA r : ~isnan(key) /\ r["seo_category"] = key)

\* the group keys of groupby("seo_category"): rows with a NaN key are dropped
GroupKeys(rows) ==
    {rows[i]["seo_category"] : i \in {j \in 1..Len(rows) : rows[j]["seo_category"].t = "str"}}

\* a set of keys in lexical order (groupby sorts its keys; NaN, if kept, is last)
KeyRank(k) == IF k.t = "str" THEN k.n ELSE Len(CatLabels) + 1
RECURSIVE SortedKeys(_)
SortedKeys(S) ==
    IF S = {} THEN <<>>
    ELSE LET k == CHOOSE x \in S : \A y \in S : KeyRank(x) <= KeyRank(y)
         IN  <<k>> \o SortedKeys(S \ {k})

AggRow(rows, key) ==
    LET g == RowsOf(rows, key)
    IN  [seo_category |-> key,
         monthly_search_volume |-> SeriesSum(Column(g, "monthly_search_volume")),
         avg_position |-> SeriesMean(Column(g, "avg_position")),
         conversion_rate |-> SeriesMean(Column(g, "conversion_rate")),
         opportunity_score |-> SeriesSum(Column(g, "opportunity_score")),
         spend_usd |-> SeriesSum(Column(g, "spend_usd")),
         revenue_usd |-> SeriesSum(Column(g, "revenue_usd"))]

\* groupby("seo_category").agg(...).reset_index(): one row per key, keys in
\* lexical order
GroupAgg(rows) ==
    LET keys == SortedKeys(GroupKeys(rows))
    IN  [i \in 1..Len(keys) |-> AggRow(rows, keys[i])]

\* sort_values("opportunity_score", ascending=False) with the default
\* kind="quicksort", which is not a stable sort: the result is descending, and
\* the order among equal scores is whatever the numpy build produces
IsDescending(s) ==
    \A i \in 1..Len(s) - 1 : ~FLess(s[i].opportunity_score, s[i + 1].opportunity_score)
Orders(n) ==
    {p \in [1..n -> 1..n] : \A i, j \in 1..n : i # j => p[i] # p[j]}
sort_values(s) ==
    {t \in {[i \in 1..Len(s) |-> s[p[i]]] : p \in Orders(Len(s))} : IsDescending(t)}

\* ------------------------------------------------- INSIGHTS & CONFIDENCE
\* float(x) if x is not NaN else None
OrNone(x) == IF isnan(x) THEN None ELSE x

\* stats_series: the std is held by its square
stats_series(s) ==
    LET v == dropna(s)
    IN  [mean |-> IF Len(v) > 0 THEN SeriesMean(v) ELSE None,
         std2 |-> IF Len(v) > 0 THEN SeriesVar0(v) ELSE None]

\* z = (cat_val - mean) / std if not np.isnan(cat_val) else np.nan
ZScore(cat_val, mean, var) ==
    LET diff == FSub(cat_val, mean)
        \* std = series.std(ddof=0) if series.std(ddof=0) > 0 else 1.0
        std2 == IF FGreater(var, Num(0)) THEN var ELSE Num(1)
    IN  IF ~isnan(cat_val) /\ IsNum(diff) /\ IsNum(std2)
        THEN ZReal(IF diff.n < 0 THEN -1 ELSE 1, FDiv(FMul(diff, diff), std2))
        ELSE ZNaN

\* the entry computed as soon as one value is present (notna().sum() > 0)
ConfEntry_MinOne(rows, cat_rows, metric, up) ==
    LET series == Column(rows, metric)
    IN  IF Len(dropna(series)) > 0
        THEN LET cat_val == IF Len(cat_rows) > 0 THEN SeriesMean(Column(cat_rows, metric)) ELSE NaN
                 z0 == ZScore(cat_val, SeriesMean(series), SeriesVar0(series))
                 z == IF up THEN ZUp(z0) ELSE z0
             IN  [value |-> OrNone(cat_val), z |-> z, confidence |-> z_to_confidence(z)]
        ELSE [value |-> None, z |-> ZNaN, confidence |-> 50]

\* one confidence entry, lines 192-200; up: the double z that lines 193-197
\* compute is one that lands above a tie of line 47
ConfEntry(rows, cat_rows, metric, up) ==
    LET series == Column(rows, metric)
    IN  IF Len(dropna(series)) > 1
        THEN LET cat_val == IF Len(cat_rows) > 0 THEN SeriesMean(Column(cat_rows, metric)) ELSE NaN
                 z0 == ZScore(cat_val, SeriesMean(series), SeriesVar0(series))
                 z == IF up THEN ZUp(z0) ELSE z0
             IN  [value |-> OrNone(cat_val), z |-> z, confidence |-> z_to_confidence(z)]
        ELSE [value |-> None, z |-> ZNaN, confidence |-> 50]

\* the entry of one category, lines 176-201; ups: the metrics whose z lands
\* above a tie
CatInsight(rows, row, ups) ==
    LET cat == row.seo_category
        cat_rows == RowsOf(rows, cat)
    IN  [cat |-> cat,
         metrics |->
            [monthly_search_volume |-> row.monthly_search_volume,
             avg_position |-> OrNone(row.avg_position),
             conversion_rate |-> OrNone(row.conversion_rate),
             opportunity_score |-> row.opportunity_score,
             total_spend_usd |-> row.spend_usd,
             total_revenue_usd |-> row.revenue_usd],
         confidence |->
            [m \in {metrics_for_conf[i] : i \in 1..Len(metrics_for_conf)} |->
                ConfEntry(rows, cat_rows, m, m \in ups)]]

\* the entries (category, metric) whose z-score is a tie of line 47
TieEntries(rows, agg) ==
    {e \in (1..Len(agg)) \X {metrics_for_conf[i] : i \in 1..Len(metrics_for_conf)} :
        LET z == ConfEntry(rows, RowsOf(rows, agg[e[1]].seo_category), e[2], FALSE).z
        IN  ~z.nan /\ IsTie(z.n, z.d)}


\* ------------------------------------------------------------ the inputs
Cell(vals, code, stride) == vals[((code \div stride) % Len(vals)) + 1]

\* the records of a table of several records: spend and category vary, and
\* the score fields are (no volume, no rank), (volume, no rank), (volume, rank);
\* the records with an empty category cell all have the same spend
TableRow(code) ==
    [spend_usd |-> IF code < 12 THEN Cell(<<Num(0), Num(100)>>, code, 1) ELSE Num(100),
     monthly_search_volume |->
        Cell(<<NaN, Num(1000), Num(1000)>>, IF code < 12 THEN code ELSE 2 * code, 2),
     avg_position |-> Cell(<<NaN, NaN, Num(1)>>, IF code < 12 THEN code ELSE 2 * code, 2),
     seo_category |-> IF code < 12 THEN Cell(<<Str(1), Str(2)>>, code, 6) ELSE NaN,
     impressions |-> Num(1000), clicks |-> Num(10), installs |-> Num(50),
     signups |-> Num(5), first_purchase |-> Num(10), repeat_purchase |-> Num(5),
     revenue_usd |-> Num(200), conversion_rate |-> Q(5, 100)]
TableRowCodes == 0..14

\* the single record of a one-record table: the funnel fields vary
FunnelRow(code) ==
    [spend_usd |-> Cell(<<NaN, Num(0), Num(100)>>, code, 1),
     impressions |-> Cell(<<NaN, Num(0), Num(1000)>>, code, 3),
     clicks |-> Cell(<<NaN, Num(0), Num(10)>>, code, 9),
     installs |-> Cell(<<NaN, Num(0), Num(50)>>, code, 27),
     first_purchase |-> Cell(<<NaN, Num(0), Num(10)>>, code, 81),
     repeat_purchase |-> Cell(<<NaN, Num(0), Num(5)>>, code, 243),
     revenue_usd |-> Cell(<<Num(0), Num(200)>>, code, 729),
     signups |-> Num(0), seo_category |-> Str(1),
     avg_position |-> Num(0), monthly_search_volume |-> Num(0), conversion_rate |-> Num(0)]
FunnelRowCodes == 0..1457

\* the single record of a one-record table: the score fields vary
ScoreRow(code) ==
    [monthly_search_volume |-> Cell(<<NaN, Num(0), Num(1000)>>, code, 1),
     conversion_rate |-> Cell(<<NaN, Num(0), Q(5, 100), Pct(45), Str(1)>>, code, 3),
     avg_position |-> Cell(<<NaN, Num(0), Num(1), Num(-1)>>, code, 15),
     spend_usd |-> Num(100), impressions |-> Num(1000), clicks |-> Num(10),
     installs |-> Num(50), signups |-> Num(5), first_purchase |-> Num(10),
     repeat_purchase |-> Num(5), revenue_usd |-> Num(200), seo_category |-> Str(2)]
ScoreRowCodes == 0..59

\* the records of a table whose categories differ in the scale of their
\* spend and revenue: (100, 200), the same times 10, and (100, 300)
ScaleRow(code) ==
    [spend_usd |-> Cell(<<Num(100), Num(1000), Num(100)>>, code, 1),
     revenue_usd |-> Cell(<<Num(200), Num(2000), Num(300)>>, code, 1),
     seo_category |-> Cell(<<Str(1), Str(2), Str(3)>>, code, 3),
     monthly_search_volume |-> Num(1000), avg_position |-> NaN,
     impressions |-> Num(1000), clicks |-> Num(10), installs |-> Num(50),
     signups |-> Num(5), first_purchase |-> Num(10), repeat_purchase |-> Num(5),
     conversion_rate |-> Q(5, 100)]
ScaleRowCodes == 0..8

\* the records of a table with one record for each label: the search
\* volume of a record is 1000 or 2000, so that the scores of the categories
\* tie or differ
RankRow(code, i) ==
    [spend_usd |-> Num(100), revenue_usd |-> Num(200), seo_category |-> Str(i),
     monthly_search_volume |-> IF code[i] THEN Num(2000) ELSE Num(1000), avg_position |-> NaN,
     impressions |-> Num(1000), clicks |-> Num(10), installs |-> Num(50),
     signups |-> Num(5), first_purchase |-> Num(10), repeat_purchase |-> Num(5),
     conversion_rate |-> Q(5, 100)]
RankCodes == [DOMAIN CatLabels -> BOOLEAN]

\* the record of a one-record table whose header varies
BaseRow ==
    [spend_usd |-> Num(100), impressions |-> Num(1000), clicks |-> Num(10),
     installs |-> Num(50), signups |-> Num(5), first_purchase |-> Num(10),
     repeat_purchase |-> Num(5), revenue_usd |-> Num(200), seo_category |-> Str(1),
     avg_position |-> Num(1), monthly_search_volume |-> Num(1000),
     conversion_rate |-> Q(5, 100)]
\* the records of a table whose return on spend is 1, 2 or 3 and whose two
\* categories have the z-scores 3/7 and -3/7, ties of line 47
TieRoas == <<1, 1, 2, 2, 2, 2, 2, 3, 3, 3>>
TieCats == <<2, 2, 1, 1, 1, 2, 2, 1, 1, 2>>
TieRow(i) ==
    [BaseRow EXCEPT !.revenue_usd = Num(100 * TieRoas[i]), !.seo_category = Str(TieCats[i])]

\* the ways a header names the spend, the clicks, the category and the
\* revenue: column name -> cell of the record
SpendHeaders ==
    <<("Spend_USD" :> Num(100)),
      ("SPEND" :> Num(100)) @@ ("cost_usd" :> Num(7)),
      ("Cost_USD" :> Num(7)) @@ ("ad_spend" :> Num(100)),
      ("spend" :> Num(100)) @@ ("spend_usd" :> Num(7)),
      ("budget" :> Num(100))>>
ClicksHeaders == <<("clicks" :> Num(10)), (" Clicks " :> Num(10))>>
CategoryHeaders ==
    <<("seo_category" :> Str(1)),
      ("Category" :> Str(1)) @@ ("seo_cat" :> Str(2)),
      ("SEO_Cat" :> Str(2)),
      ("segment" :> Str(2))>>
RevenueHeaders ==
    <<("revenue_usd" :> Num(200)),
      ("Revenue" :> Num(200)) @@ ("revenue_usd_total" :> Num(7))>>

AllCols == DOMAIN TableRow(0)
Restrict(row, cols) == [c \in cols |-> row[c]]

\* Tables of 1..MaxRows records.  No step of the run reads the position of a
\* record, so each multiset of records is taken in one order.
TableCodeSeqs ==
    UNION {{cs \in [1..n -> TableRowCodes] : \A i \in 1..(n - 1) : cs[i] <= cs[i + 1]} :
           n \in 1..MaxRows}
\* the same records in a sheet without a seo_category column
NoCatCodes == 0..5
\* the columns a header lacks: up to MaxAbsent of them, or all but one
AbsentSets ==
    {S \in SUBSET AllCols :
        Cardinality(S) <= MaxAbsent \/ Cardinality(S) = Cardinality(AllCols) - 1}
AliasRows ==
    {Restrict(BaseRow, AllCols \ {"spend_usd", "clicks", "seo_category", "revenue_usd"})
        @@ SpendHeaders[a] @@ ClicksHeaders[b] @@ CategoryHeaders[c] @@ RevenueHeaders[d] :
     a \in DOMAIN SpendHeaders, b \in DOMAIN ClicksHeaders,
     c \in DOMAIN CategoryHeaders, d \in DOMAIN RevenueHeaders}
ScaleCodeSeqs ==
    UNION {{cs \in [1..n -> ScaleRowCodes] : \A i \in 1..(n - 1) : cs[i] <= cs[i + 1]} :
           n \in 2..MaxRows}

Sheets ==
    {[cols |-> AllCols, rows |-> [i \in DOMAIN cs |-> TableRow(cs[i])]] : cs \in TableCodeSeqs}
    \cup {[cols |-> AllCols \ {"seo_category"},
           rows |-> [i \in DOMAIN cs |-> Restrict(TableRow(cs[i]), AllCols \ {"seo_category"})]] :
          cs \in {x \in TableCodeSeqs : \A i \in DOMAIN x : x[i] \in NoCatCodes}}
    \cup {[cols |-> AllCols, rows |-> <<FunnelRow(c)>>] : c \in FunnelRowCodes}
    \cup {[cols |-> AllCols, rows |-> <<ScoreRow(c)>>] : c \in ScoreRowCodes}
    \cup {[cols |-> AllCols, rows |-> [i \in DOMAIN cs |-> ScaleRow(cs[i])]] : cs \in ScaleCodeSeqs}
    \cup {[cols |-> AllCols, rows |-> [i \in DOMAIN CatLabels |-> RankRow(code, i)]] :
          code \in RankCodes}
    \cup {[cols |-> AllCols \ S, rows |-> <<Restrict(BaseRow, AllCols \ S)>>] : S \in AbsentSets}
    \cup {[cols |-> DOMAIN r, rows |-> <<r>>] : r \in AliasRows}
    \cup {[cols |-> AllCols, rows |-> [i \in DOMAIN TieRoas |-> TieRow(i)]]}
    \* a sheet with none of the expected columns
    \cup {[cols |-> {"notes"}, rows |-> <<("notes" :> Str(1))>>]}

NoFrame == [cols |-> {}, rows |-> <<>>]
NoInsights == [summary |-> <<>>, categories |-> <<>>]

NoError == [type |-> "", names |-> ""]
\* lines 12-15
EXCEL_PATH == "data/Kasparro_Phase5_D2C_Synthetic_Dataset_fixed.xlsx"

InitRun ==
    /\ pc = "LOAD"
    /\ excel_exists \in BOOLEAN
    /\ IF excel_exists THEN sheet \in Sheets ELSE sheet = NoFrame
    /\ d2c_df = NoFrame
    /\ col_map = <<>>
    /\ seo_agg = <<>>
    /\ insights = NoInsights
    /\ files = {}
    /\ missing = {}
    /\ creatives = <<>>
    /\ gen_calls = <<>>
    /\ creatives_txt = <<>>
    /\ error = NoError
    /\ u_call = "none" /\ u_args = <<>> /\ u_ret = <<>>

\* ------------------------------------------------------------- the run
\* the sheet read without asking whether the workbook is there
Load_NoExistsCheck ==
    /\ pc = "LOAD"
    /\ d2c_df' = NormalizeColumns(sheet)
    /\ pc' = "MAP"
    /\ UNCHANGED <<inputVars, col_map, seo_agg, insights, missing, outVars, utilVars>>

\* LOAD (lines 49-67): raise when the workbook is not there, else read Sheet1
\* and normalize its column names
Load ==
    /\ pc = "LOAD"
    /\ IF ~excel_exists
       THEN /\ error' = [type |-> "FileNotFoundError", names |-> EXCEL_PATH]
            /\ pc' = "ABORTED"
            /\ UNCHANGED d2c_df
       ELSE /\ d2c_df' = NormalizeColumns(sheet)
            /\ pc' = "MAP"
            /\ UNCHANGED error
    /\ UNCHANGED <<inputVars, col_map, seo_agg, insights, files, missing, creatives, gen_calls,
                   creatives_txt, utilVars>>

\* MAP/VERIFY REQUIRED COLUMNS (lines 69-103): resolve, warn about the
\* minimal columns that were not found
MapColumns ==
    /\ pc = "MAP"
    /\ col_map' = ResolveColumns(d2c_df.cols)
    /\ missing' = {m \in minimal_needed : m \notin DOMAIN col_map'}
    /\ pc' = "RENAME"
    /\ UNCHANGED <<inputVars, d2c_df, seo_agg, insights, outVars, utilVars>>

\* rename to canonical column names (lines 105-106)
RenameColumns ==
    /\ pc = "RENAME"
    /\ d2c_df' = [cols |-> {Renamed(c, col_map) : c \in d2c_df.cols},
                  rows |-> [i \in 1..Len(d2c_df.rows) |-> RenameRow(d2c_df.rows[i], col_map)]]
    /\ pc' = "FILL"
    /\ UNCHANGED <<inputVars, col_map, missing, seo_agg, insights, outVars, utilVars>>

\* lines 108-119: coerce the numeric columns, create the absent ones
FillRow(row) ==
    [c \in (DOMAIN row) \cup numeric_cols \cup {"seo_category"} |->
        IF c \in numeric_cols THEN (IF c \in DOMAIN row THEN to_numeric(row[c]) ELSE NaN)
        ELSE IF c = "seo_category" /\ c \notin DOMAIN row THEN Unknown
        ELSE row[c]]
FillNumeric ==
    /\ pc = "FILL"
    /\ d2c_df' = [cols |-> d2c_df.cols \cup numeric_cols \cup {"seo_category"},
                  rows |-> [i \in 1..Len(d2c_df.rows) |-> FillRow(d2c_df.rows[i])]]
    /\ pc' = "CLEANING"
    /\ UNCHANGED <<inputVars, col_map, missing, seo_agg, insights, outVars, utilVars>>

\* line 123: float(str(x).strip("%")) / 100 if isinstance(x, str) and "%" in x else x
PercentToFraction(x) == IF x.t = "pct" THEN FDiv(Num(x.n), Num(100)) ELSE x
\* CLEANING (lines 121-126): the percent strings of conversion_rate are
\* rewritten, the count columns are zero-filled
CleanRow(row) ==
    [c \in DOMAIN row |->
        IF c \in count_cols THEN fillna0(to_numeric(row[c]))
        ELSE IF c = "conversion_rate" THEN PercentToFraction(row[c])
        ELSE row[c]]
Cleaning ==
    /\ pc = "CLEANING"
    /\ d2c_df' = [d2c_df EXCEPT !.rows = [i \in 1..Len(d2c_df.rows) |-> CleanRow(d2c_df.rows[i])]]
    /\ pc' = "METRICS"
    /\ UNCHANGED <<inputVars, col_map, missing, seo_agg, insights, outVars, utilVars>>

\* METRICS (lines 128-139)
MetricsFrame(df) ==
    LET R(d) == 1..Len(d.rows)
        d1 == AddCol(df, "ctr", [i \in R(df) |-> ctr(df.rows[i])])
        d2 == AddCol(d1, "cvr_click_to_install", [i \in R(d1) |-> cvr_click_to_install(d1.rows[i])])
        d3 == AddCol(d2, "conversions_for_cac", [i \in R(d2) |-> conversions_for_cac(d2.rows[i])])
        d4 == AddCol(d3, "cac_usd", [i \in R(d3) |-> cac_usd(d3.rows[i])])
        d5 == AddCol(d4, "roas", [i \in R(d4) |-> roas(d4.rows[i])])
        d6 == AddCol(d5, "ltv_per_install", [i \in R(d5) |-> ltv_per_install(d5.rows[i])])
    IN  AddCol(d6, "repeat_rate", [i \in R(d6) |-> repeat_rate(d6.rows[i])])
Metrics ==
    /\ pc = "METRICS"
    /\ d2c_df' = MetricsFrame(d2c_df)
    /\ pc' = "AGGREGATIONS"
    /\ UNCHANGED <<inputVars, col_map, missing, seo_agg, insights, outVars, utilVars>>

\* AGGREGATIONS & SEO OPPORTUNITY (lines 141-157)
Aggregations ==
    /\ pc = "AGGREGATIONS"
    /\ d2c_df' = AddCol(d2c_df, "opportunity_score",
                        [i \in 1..Len(d2c_df.rows) |-> opportunity_score(d2c_df.rows[i])])
    /\ seo_agg' \in sort_values(GroupAgg(d2c_df'.rows))
    /\ pc' = "INSIGHTS"
    /\ UNCHANGED <<inputVars, col_map, missing, insights, outVars, utilVars>>

\* INSIGHTS & CONFIDENCE (lines 159-201)
Insights ==
    /\ pc = "INSIGHTS"
    /\ \E ups \in SUBSET TieEntries(d2c_df.rows, seo_agg) :
          insights' =
            [summary |-> [m \in {metrics_for_conf[i] : i \in 1..Len(metrics_for_conf)} |->
                             stats_series(Column(d2c_df.rows, m))],
             categories |->
                [i \in 1..Len(seo_agg) |->
                    CatInsight(d2c_df.rows, seo_agg[i],
                               {metrics_for_conf[j] : j \in {k \in 1..Len(metrics_for_conf) :
                                                               <<i, metrics_for_conf[k]>> \in ups}})]]
    /\ pc' = "SAVE"
    /\ UNCHANGED <<inputVars, d2c_df, col_map, missing, seo_agg, outVars, utilVars>>

\* SAVE CLEANED DATA (lines 203-211)
Save ==
    /\ pc = "SAVE"
    /\ files' = files \cup {"CLEANED_CSV", "INSIGHTS_JSON"}
    /\ pc' = "CREATIVES"
    /\ UNCHANGED <<inputVars, d2c_df, col_map, missing, seo_agg, insights, creatives, gen_calls,
                   creatives_txt, error, utilVars>>

\* .astype(str) of line 218: a text label is itself, a number becomes its text
astype_str(x) == IF x.t = "str" THEN x ELSE [t |-> "text", n |-> x.n, d |-> x.d]

\* every label of the aggregates, without the head(3) of line 218
top_categories_All ==
    [i \in 1..Len(seo_agg) |-> astype_str(seo_agg[i].seo_category)]

\* line 218: the labels of the first three aggregates
top_categories ==
    [i \in 1..(IF Len(seo_agg) < 3 THEN Len(seo_agg) ELSE 3) |->
        astype_str(seo_agg[i].seo_category)]

\* line 216: the text-generation pipeline is built; loading the model may raise
BuildPipeline ==
    /\ pc = "CREATIVES"
    /\ \E ok \in BOOLEAN :
          IF ok THEN pc' = "GENERATE" /\ UNCHANGED error
          ELSE pc' = "ABORTED" /\ error' = [type |-> "PipelineError", names |-> HF_MODEL]
    /\ UNCHANGED <<inputVars, d2c_df, col_map, missing, seo_agg, insights, files, creatives,
                   gen_calls, creatives_txt, utilVars>>

\* one turn of the loop of lines 221-229: the generator is called with the
\* prompt of the next label and its text kept; the call may raise
GenerateCreative ==
    /\ pc = "GENERATE"
    /\ Len(creatives) < Len(top_categories)
    /\ LET cat == top_categories[Len(creatives) + 1]
       IN  /\ gen_calls' = Append(gen_calls, cat)
           /\ \E ok \in BOOLEAN, out \in GeneratedTexts :
                 IF ok
                 THEN /\ creatives' = Append(creatives, [category |-> cat, raw_output |-> out])
                      /\ UNCHANGED <<pc, error>>
                 ELSE /\ pc' = "ABORTED"
                      /\ error' = [type |-> "GenerationError", names |-> HF_MODEL]
                      /\ UNCHANGED creatives
    /\ UNCHANGED <<inputVars, d2c_df, col_map, missing, seo_agg, insights, files, creatives_txt,
                   utilVars>>

\* lines 231-235: once the loop is over the creatives are written, a block
\* of a category line and the stripped text for each
WriteCreatives ==
    /\ pc = "GENERATE"
    /\ Len(creatives) = Len(top_categories)
    /\ files' = files \cup {"CREATIVES_TXT"}
    /\ creatives_txt' =
          [i \in 1..Len(creatives) |->
              [category |-> creatives[i].category, text |-> strip(creatives[i].raw_output)]]
    /\ pc' = "REPORT"
    /\ UNCHANGED <<inputVars, d2c_df, col_map, missing, seo_agg, insights, creatives, gen_calls,
                   error, utilVars>>

\* GENERATE MARKDOWN REPORT (lines 237-280)
Report ==
    /\ pc = "REPORT"
    /\ files' = files \cup {"REPORT_MD"}
    /\ pc' = "DONE"
    /\ UNCHANGED <<inputVars, d2c_df, col_map, missing, seo_agg, insights, creatives, gen_calls,
                   creatives_txt, error, utilVars>>

Next ==
    \/ Load \/ MapColumns \/ RenameColumns \/ FillNumeric \/ Cleaning \/ Metrics
    \/ Aggregations \/ Insights \/ Save \/ BuildPipeline \/ GenerateCreative
    \/ WriteCreatives \/ Report

Spec == InitRun /\ [][Next]_vars


\* ------------------------------------------- the utility functions alone
\* the z-scores a utility evaluation is given
ZInputs ==
    LET grid == {ZOf(k, ZDen) : k \in (-(ZSpan * ZDen))..(ZSpan * ZDen)}
    IN  {ZNaN} \cup grid \cup {ZUp(z) : z \in grid} \cup {ZOf(ZFar, 1), ZOf(-ZFar, 1)}
\* the dividends and divisors a utility evaluation is given
DivA == {NaN, Num(0), Num(100), Num(-7), Q(1, 2)}
DivB == {Num(0), None, NpNaN, NaN, Num(50), Num(-2), Q(1, 3)}

\* the column lists and the candidate lists a find_col evaluation is given
FrameColumns ==
    {<<"Spend", "cost_usd">>, <<"Cost_USD", "ad_spend", "clicks">>, <<"spend", "SPEND">>,
     <<" Clicks ", "Revenue">>, <<"clicks", "Category", "seo_cat">>, <<"budget">>}
Candidates ==
    {expected[l] : l \in {"spend_usd", "clicks", "seo_category", "revenue_usd"}}
        \cup {<<"Spend", "COST_USD">>}

InitUtil ==
    /\ pc = "idle"
    /\ sheet = NoFrame /\ d2c_df = NoFrame /\ col_map = <<>> /\ seo_agg = <<>>
    /\ insights = NoInsights /\ files = {}
    /\ excel_exists = FALSE /\ missing = {} /\ creatives = <<>> /\ error = NoError
    /\ gen_calls = <<>> /\ creatives_txt = <<>>
    /\ u_ret = <<>>
    /\ \/ u_call = "safe_div" /\ u_args \in DivA \X DivB
       \/ u_call = "z_to_confidence" /\ u_args \in ZInputs \X ZInputs
       \/ u_call = "find_col" /\ u_args \in FrameColumns \X Candidates

\* safe_div(a, b) is evaluated
EvalSafeDiv ==
    /\ u_call = "safe_div" /\ u_ret = <<>>
    /\ u_ret' = <<safe_div(u_args[1], u_args[2])>>
    /\ UNCHANGED <<runVars, u_call, u_args>>

\* z_to_confidence is evaluated on each of two z-scores
EvalZToConfidence ==
    /\ u_call = "z_to_confidence" /\ u_ret = <<>>
    /\ u_ret' = <<z_to_confidence(u_args[1]), z_to_confidence(u_args[2])>>
    /\ UNCHANGED <<runVars, u_call, u_args>>

\* find_col(df, candidates) is evaluated
EvalFindCol ==
    /\ u_call = "find_col" /\ u_ret = <<>>
    /\ u_ret' = <<find_col(u_args[1], u_args[2])>>
    /\ UNCHANGED <<runVars, u_call, u_args>>

NextUtil == EvalSafeDiv \/ EvalZToConfidence \/ EvalFindCol

SpecUtil == InitUtil /\ [][NextUtil]_vars

\* a run of the script, or an evaluation of one of its utility functions
NextAll == Next \/ NextUtil
SpecAll == (InitRun \/ InitUtil) /\ [][NextAll]_vars

\* ------------------------- the confidence of a constant column, in binary64
\* Everywhere else a float is held as the exact rational it stands for.  The
\* sum of three or more equal doubles is where rounding changes an outcome of
\* the script: series.mean() is sum / count, and the rounded sum of equal
\* values divided by their count need not be the value.  Here the values of
\* a metric column are one double x, taken in the binade [2^52, 2^53) where
\* doubles are the integers, and the sums and means of lines 194-196 are
\* rounded as binary64 rounds them (to nearest, ties to even).  An integer
\* below 2^57 is [hi, lo] = hi * Limb + lo.
Limb == 134217728
Big(hi, lo) == [hi |-> hi + (lo \div Limb), lo |-> lo % Limb]
BigAdd(a, b) == Big(a.hi + b.hi, a.lo + b.lo)
\* the distance between neighbouring doubles at v: 1 below 2^53, 2 below 2^54, ...
Spacing(v) ==
    IF v.hi < Limb \div 2 THEN 1
    ELSE IF v.hi < Limb THEN 2
    ELSE IF v.hi < 2 * Limb THEN 4
    ELSE 8
\* v rounded to a multiple of sp, to nearest, ties to the even multiple
RoundTo(v, sp) ==
    LET r == v.lo % sp
        q == v.lo \div sp
        down == Big(v.hi, v.lo - r)
        up == Big(v.hi, v.lo - r + sp)
    IN  IF 2 * r < sp THEN down
        ELSE IF 2 * r > sp THEN up
        ELSE IF q % 2 = 0 THEN down ELSE up
\* a + b of two doubles
fl_add(a, b) == RoundTo(BigAdd(a, b), Spacing(BigAdd(a, b)))
\* values.sum() over n values x: res = 0.0, then res += x for each
RECURSIVE fl_sum(_, _)
fl_sum(x, n) == IF n = 0 THEN Big(0, 0) ELSE fl_add(fl_sum(x, n - 1), x)
\* v / n of a double by a count, for a quotient in [2^52, 2^53)
fl_div(v, n) ==
    LET t == (v.hi % n) * Limb + v.lo
        floor == Big(v.hi \div n, t \div n)
        r == t % n
    IN  IF 2 * r > n \/ (2 * r = n /\ (t \div n) % 2 = 1)
        THEN BigAdd(floor, Big(0, 1)) ELSE floor
\* Series.mean() of n values x
fl_mean(x, n) == fl_div(fl_sum(x, n), n)
\* a - x of two doubles less than a binade apart: exact
fl_sub(a, x) == Num((a.hi - x.hi) * Limb + (a.lo - x.lo))

\* the doubles a constant column holds: the significands of 0.1, 0.3, 0.7,
\* 1.0, 1.1, 4.35, 0.9 and 1.7, scaled to [2^52, 2^53)
FloatValues ==
    {Big(53687091, 26843546), Big(40265318, 53687091), Big(46976204, 107374182),
     Big(33554432, 0), Big(36909875, 26843546), Big(36490444, 107374182),
     Big(60397977, 80530637), Big(57042534, 53687091)}

\* a metric column of n records, all x, k of them in the category
InitFloat ==
    /\ pc = "float"
    /\ sheet = NoFrame /\ d2c_df = NoFrame /\ col_map = <<>> /\ seo_agg = <<>>
    /\ insights = NoInsights /\ files = {}
    /\ excel_exists = FALSE /\ missing = {} /\ creatives = <<>> /\ error = NoError
    /\ gen_calls = <<>> /\ creatives_txt = <<>>
    /\ u_call = "confidence_entry"
    /\ u_args \in {<<x, n, k>> : x \in FloatValues, n \in 1..MaxRows, k \in 1..MaxRows}
    /\ u_args[3] <= u_args[2]
    /\ u_ret = <<>>

\* lines 193-195: mean = series.mean(); std = series.std(ddof=0), whose
\* deviations avg - x are all the same and whose squares sum and divide
\* without rounding
EvalSeriesStats ==
    /\ u_call = "confidence_entry" /\ u_ret = <<>>
    /\ LET x == u_args[1]
           n == u_args[2]
           dev == fl_sub(fl_mean(x, n), x)
       IN  u_ret' = <<[mean |-> fl_mean(x, n),
                       std2 |-> FDiv(SumSeq([i \in 1..n |-> FMul(dev, dev)]), Num(n))]>>
    /\ UNCHANGED <<runVars, u_call, u_args>>

\* lines 192-200 for the category: cat_val, z and confidence, the values
\* taken relative to x
EvalCategoryEntry ==
    /\ u_call = "confidence_entry" /\ Len(u_ret) = 1
    /\ LET x == u_args[1]
           n == u_args[2]
           k == u_args[3]
           cat_val == fl_mean(x, k)
           z == ZScore(fl_sub(cat_val, x), fl_sub(u_ret[1].mean, x), u_ret[1].std2)
       IN  u_ret' = Append(u_ret,
                IF n > 1 THEN [value |-> cat_val, z |-> z, confidence |-> z_to_confidence(z)]
                ELSE [value |-> None, z |-> ZNaN, confidence |-> 50])
    /\ UNCHANGED <<runVars, u_call, u_args>>

NextFloat == EvalSeriesStats \/ EvalCategoryEntry
SpecFloat == InitFloat /\ [][NextFloat]_vars

\* ================================================================ claims
ConfDone == u_call = "z_to_confidence" /\ u_ret # <<>>
DivDone == u_call = "safe_div" /\ u_ret # <<>>
Z6 == ZOf(6, 1)

\* c is a hundredth nearest to 50 + 49 * min(|z|, 6) / 6
NearestHundredth(c, z) ==
    LET a2 == IF z.n > 36 * z.d THEN Q(36, 1) ELSE Q(z.n, z.d)
        lo == 6 * c - 303
        hi == 6 * c - 297
    IN  /\ c \in 50..99
        /\ lo > 0 => lo * lo * a2.d <= 2401 * a2.n
        /\ 2401 * a2.n <= hi * hi * a2.d

\* C3: z_to_confidence maps a missing z to 0.5, z = 0 to 0.5, z = +6 and -6 to
\* 0.99, every z with |z| > 6 to the result of |z| = 6, and a non-missing z
\* to round(0.5 + (min(|z|, 6) / 6) * 0.49, 2).
C3_ZToConfidenceValues ==
    ConfDone =>
        LET z == u_args[1]
            c == u_ret[1]
        IN  /\ z.nan => c = 50
            /\ z = ZOf(0, 1) => c = 50
            /\ z \in {Z6, ZNeg(Z6)} => c = 99
            /\ (~z.nan /\ z.n > 36 * z.d /\ u_args[2] = Z6) => c = u_ret[2]
            /\ ~z.nan => NearestHundredth(c, z)
C3_Witness ==
    /\ ConfDone /\ u_args[1] = ZOf(-ZFar, 1) /\ u_args[2] = Z6
    /\ u_ret[1] = 99 /\ u_ret[2] = 99

\* C4: z_to_confidence(z) = z_to_confidence(-z) for every non-missing z.
C4_Symmetric ==
    (ConfDone /\ ~u_args[1].nan /\ u_args[2] = ZNeg(u_args[1])) => u_ret[1] = u_ret[2]
C4_Witness ==
    /\ ConfDone /\ u_args[1] = ZOf(-5, ZDen) /\ u_args[2] = ZOf(5, ZDen)
    /\ u_ret[1] = u_ret[2] /\ u_ret[1] > 50

\* C5: for non-missing z1, z2 with |z1| <= |z2|, z_to_confidence(z1) <=
\* z_to_confidence(z2).
C5_Monotone ==
    (ConfDone /\ ~u_args[1].nan /\ ~u_args[2].nan /\ ZAbsLeq(u_args[1], u_args[2]))
        => u_ret[1] <= u_ret[2]
C5_Witness ==
    /\ ConfDone /\ u_args[1] = ZOf(-1, ZDen) /\ u_args[2] = ZOf(ZFar, 1)
    /\ u_ret[1] < u_ret[2]

\* C6: safe_div(a, b) is the missing marker whenever b is zero, None or NaN,
\* for any a; it never raises and never returns infinity; for a non-zero
\* number b it is a / b.
C6_SafeDiv ==
    DivDone =>
        LET a == u_args[1]
            b == u_args[2]
            r == u_ret[1]
        IN  /\ ((IsNum(b) /\ b.n = 0) \/ b.t = "none" \/ isnan(b)) => isnan(r)
            /\ r.t \notin {"zerodiv", "typeerror"}
            /\ (IsNum(b) /\ b.n # 0 /\ IsNum(a)) =>
                    (IsNum(r) /\ r.n * b.n * a.d = a.n * b.d * r.d)
            /\ (IsNum(b) /\ b.n # 0 /\ isnan(a)) => isnan(r)
C6_Witness ==
    /\ DivDone /\ u_args = <<Num(100), Num(0)>> /\ isnan(u_ret[1])


\* ------------------------------------------------------ claims on a run
Tracked == {metrics_for_conf[i] : i \in 1..Len(metrics_for_conf)}
\* the states in which a section has just run; no later section changes what
\* it computed
HasMetrics == pc = "AGGREGATIONS"
HasScores == pc = "INSIGHTS"
HasInsights == pc = "SAVE"
Entry(i, m) == insights.categories[i].confidence[m]
Entries == {<<i, m>> : i \in 1..Len(insights.categories), m \in Tracked}

\* C1: every confidence entry of every (category, metric) pair, for each of
\* the five tracked metrics, has a confidence in [0.5, 0.99], whatever the
\* input table; and so has every value z_to_confidence returns.
C1_ConfidenceRange ==
    /\ \A i \in 1..Len(insights.categories) :
          /\ DOMAIN insights.categories[i].confidence = Tracked
          /\ \A m \in Tracked : Entry(i, m).confidence \in 50..99
    /\ ConfDone => (u_ret[1] \in 50..99 /\ u_ret[2] \in 50..99)
C1_Witness ==
    /\ HasInsights /\ Len(insights.categories) = 2
    /\ Entry(1, "opportunity_score").confidence = 58
    /\ Entry(2, "opportunity_score").value = None
    /\ Entry(2, "roas").z.nan /\ Entry(2, "roas").confidence = 50

\* the z-score of an entry is undefined: fewer than 2 non-missing values of
\* the metric in the dataset, or no non-missing value in the category
FewValues(m) == Cardinality({i \in 1..Len(d2c_df.rows) : ~isnan(d2c_df.rows[i][m])}) < 2
CatMissing(i, m) ==
    \A j \in 1..Len(d2c_df.rows) :
        d2c_df.rows[j]["seo_category"] = insights.categories[i].cat => isnan(d2c_df.rows[j][m])
Undefined(i, m) == FewValues(m) \/ CatMissing(i, m)

\* C2 as stated: confidence = 0.5 exactly when the z-score is undefined (fewer
\* than 2 non-missing dataset values) or the category's value is missing.
C2_HalfIffUndefined ==
    HasInsights =>
        \A e \in Entries : (Entry(e[1], e[2]).confidence = 50) <=> Undefined(e[1], e[2])

\* C2 amended: an undefined z-score or a missing category value gives a
\* missing z and confidence 0.5; a defined z gives confidence 0.5 exactly
\* when 49|z| < 3 (z = 0 included), or 49|z| = 3 and the double arithmetic of
\* line 47 does not land above the tie, and a higher confidence otherwise.
C2_HalfWhenUndefinedOrSmall ==
    HasInsights =>
        \A e \in Entries :
            LET en == Entry(e[1], e[2])
            IN  IF Undefined(e[1], e[2])
                THEN en.z.nan /\ en.confidence = 50
                ELSE /\ ~en.z.nan
                     /\ (en.confidence = 50) <=>
                            \/ 2401 * en.z.n < 9 * en.z.d
                            \/ 2401 * en.z.n = 9 * en.z.d /\ ~en.z.up
                     /\ en.confidence >= 50
C2_Witness ==
    /\ HasInsights
    /\ \E e \in Entries :
          ~Undefined(e[1], e[2]) /\ Entry(e[1], e[2]).z.s = 0 /\ Entry(e[1], e[2]).confidence = 50
    /\ \E e \in Entries :
          ~FewValues(e[2]) /\ CatMissing(e[1], e[2]) /\ Entry(e[1], e[2]).confidence = 50
    /\ \E e \in Entries : Entry(e[1], e[2]).confidence > 50

\* C7: conversions_for_cac is first_purchase when first_purchase > 0 and
\* installs otherwise (never the sum), and cac_usd = safe_div(spend_usd,
\* conversions_for_cac); first_purchase=0, installs=50, spend_usd=100 gives
\* conversions_for_cac = 50 and cac_usd = 2.0.
C7_Row(r) ==
    LET fp == r["first_purchase"]
        conv == r["conversions_for_cac"]
        cac == r["cac_usd"]
        spend == r["spend_usd"]
    IN  /\ conv = IF fp.n > 0 THEN fp ELSE r["installs"]
        /\ IF conv.n = 0 \/ isnan(spend) THEN isnan(cac)
           ELSE IsNum(cac) /\ cac.n * conv.n * spend.d = spend.n * conv.d * cac.d
        /\ (fp = Num(0) /\ r["installs"] = Num(50) /\ spend = Num(100))
              => (conv = Num(50) /\ cac = Num(2))
C7_ConversionsForCac ==
    HasMetrics => \A i \in 1..Len(d2c_df.rows) : C7_Row(d2c_df.rows[i])
C7_Witness ==
    /\ HasMetrics
    /\ \E i \in 1..Len(d2c_df.rows) :
          LET r == d2c_df.rows[i]
          IN  /\ r["first_purchase"] = Num(0) /\ r["installs"] = Num(50)
              /\ r["spend_usd"] = Num(100) /\ r["cac_usd"] = Num(2)

\* C8: for a record whose numeric fields are all zero (the count fields zero
\* or missing and zero-filled), every funnel metric is missing; impressions=0,
\* clicks=0 gives ctr = missing.
funnel_metrics ==
    {"ctr", "cvr_click_to_install", "cac_usd", "roas", "ltv_per_install", "repeat_rate"}
ZeroOrMissing(x) == isnan(x) \/ x = Num(0)
\* the cell of a record of the sheet, missing when the sheet has no such column
Raw(i, c) == IF c \in DOMAIN sheet.rows[i] THEN sheet.rows[i][c] ELSE NaN
AllZeroInput(i) ==
    /\ \A c \in count_cols : ZeroOrMissing(Raw(i, c))
    /\ Raw(i, "spend_usd") = Num(0) /\ Raw(i, "revenue_usd") = Num(0)
C8_AllZeroRowAllMissing ==
    (HasMetrics /\ sheet.cols \subseteq AllCols) =>
        \A i \in 1..Len(d2c_df.rows) :
            /\ AllZeroInput(i) => \A m \in funnel_metrics : isnan(d2c_df.rows[i][m])
            /\ (ZeroOrMissing(Raw(i, "impressions")) /\ ZeroOrMissing(Raw(i, "clicks")))
                  => isnan(d2c_df.rows[i]["ctr"])
C8_Witness ==
    /\ HasMetrics /\ Len(d2c_df.rows) = 1 /\ sheet.cols = AllCols
    /\ AllZeroInput(1)
    /\ isnan(sheet.rows[1]["clicks"]) /\ sheet.rows[1]["impressions"] = Num(0)
    /\ d2c_df.rows[1]["clicks"] = Num(0)
    /\ \A m \in funnel_metrics : isnan(d2c_df.rows[1][m])

\* C9: opportunity_score = safe_div(monthly_search_volume * c, p + 1), c the
\* conversion_rate or 0 when it is missing, p the avg_position or 0 when it is
\* missing; 1000, 0.05, missing gives 50.0.
C9_Row(r) ==
    LET msv == r["monthly_search_volume"]
        c == IF isnan(r["conversion_rate"]) THEN Num(0) ELSE r["conversion_rate"]
        p == IF isnan(r["avg_position"]) THEN Num(0) ELSE r["avg_position"]
        den == FAdd(p, Num(1))
        os == r["opportunity_score"]
    IN  /\ IF isnan(msv) \/ den.n = 0 THEN isnan(os)
           ELSE IsNum(os) /\ FMul(os, den) = FMul(msv, c)
        /\ (msv = Num(1000) /\ r["conversion_rate"] = Q(5, 100) /\ isnan(r["avg_position"]))
              => os = Num(50)
C9_OpportunityScore ==
    HasScores => \A i \in 1..Len(d2c_df.rows) : C9_Row(d2c_df.rows[i])
C9_Witness ==
    /\ HasScores
    /\ \E i \in 1..Len(d2c_df.rows) :
          LET r == d2c_df.rows[i]
          IN  /\ r["monthly_search_volume"] = Num(1000) /\ r["conversion_rate"] = Q(5, 100)
              /\ isnan(r["avg_position"]) /\ r["opportunity_score"] = Num(50)

\* C10: the summed opportunity_score of the category aggregates adds up to the
\* sum of the per-record opportunity_score over the whole table: every record
\* (one with a missing seo_category cell included) is in exactly one aggregate.
AggTotal == SumSeq([i \in 1..Len(seo_agg) |-> seo_agg[i].opportunity_score])
RecordTotal == SeriesSum(Column(d2c_df.rows, "opportunity_score"))
C10_Partition == HasScores => AggTotal = RecordTotal

\* C11: the categories are ordered by their summed opportunity_score,
\* descending; categories with equal sums keep the lexical order of their
\* labels (a stable sort); the categories of the insight structure are stored
\* in exactly this order.
C11_SortedStable ==
    /\ HasScores =>
          \A i, j \in 1..Len(seo_agg) :
              i < j =>
                 /\ ~FLess(seo_agg[i].opportunity_score, seo_agg[j].opportunity_score)
                 /\ seo_agg[i].opportunity_score = seo_agg[j].opportunity_score
                       => KeyRank(seo_agg[i].seo_category) < KeyRank(seo_agg[j].seo_category)
    /\ HasInsights =>
          /\ Len(insights.categories) = Len(seo_agg)
          /\ \A i \in 1..Len(seo_agg) : insights.categories[i].cat = seo_agg[i].seo_category

\* C12: for each tracked metric with at least 2 non-missing per-record values
\* and each category, the entry's value is the mean of the metric over the
\* category's own non-missing records, and z = (value - M) / S, with M the mean
\* and S the population standard deviation (divide by N) of the metric over
\* all non-missing records of the whole dataset, S replaced by 1.0 when it is
\* zero; the category's own variance is not used, and a single-record category
\* is scored against the whole dataset.
NonMissing(m) == dropna(Column(d2c_df.rows, m))
CatNonMissing(i, m) == dropna(Column(RowsOf(d2c_df.rows, insights.categories[i].cat), m))
IsMeanOf(x, v) == IsNum(x) /\ FMul(x, Num(Len(v))) = SumSeq(v)
PopMean(v) == FDiv(SumSeq(v), Num(Len(v)))
PopVar(v) ==
    FDiv(SumSeq([k \in 1..Len(v) |-> FMul(FSub(v[k], PopMean(v)), FSub(v[k], PopMean(v)))]),
         Num(Len(v)))
C12_Entry(i, m) ==
    LET en == Entry(i, m)
        v == NonMissing(m)
        cv == CatNonMissing(i, m)
        diff == FSub(en.value, PopMean(v))
        s2 == IF PopVar(v).n = 0 THEN Num(1) ELSE PopVar(v)
    IN  IF cv = <<>> THEN en.value = None /\ en.z.nan
        ELSE /\ IsMeanOf(en.value, cv)
             /\ ~en.z.nan
             /\ en.z.s = (IF diff.n < 0 THEN -1 ELSE IF diff.n = 0 THEN 0 ELSE 1)
             /\ FMul(Q(en.z.n, en.z.d), s2) = FMul(diff, diff)
C12_ZScoreAgainstDataset ==
    HasInsights =>
        \A e \in Entries : Len(NonMissing(e[2])) >= 2 => C12_Entry(e[1], e[2])
C12_Witness ==
    /\ HasInsights /\ Len(d2c_df.rows) = 3
    /\ \E e \in Entries :
          /\ Len(NonMissing(e[2])) = 3
          /\ Len(CatNonMissing(e[1], e[2])) = 1
          /\ Entry(e[1], e[2]).z.s = 1
          /\ Entry(e[1], e[2]).z.n = 2 /\ Entry(e[1], e[2]).z.d = 1

\* C13: the roas confidence is scale-invariant: two categories whose records
\* are identical except that the spend_usd and the revenue_usd of one are
\* those of the other multiplied by the same positive factor get an equal
\* z-score and an equal confidence for roas.
ScaleFactors == {Num(10)}
InputOf(r, k) ==
    [c \in AllCols \ {"seo_category"} |->
        IF c \in {"spend_usd", "revenue_usd"} THEN FMul(r[c], k) ELSE r[c]]
\* the records of category j are those of category i with spend and revenue
\* multiplied by k
ScaledCopy(i, j, k) ==
    LET a == RowsOf(d2c_df.rows, insights.categories[i].cat)
        b == RowsOf(d2c_df.rows, insights.categories[j].cat)
    IN  /\ Len(a) = Len(b)
        /\ \E p \in Orders(Len(a)) :
              \A x \in 1..Len(a) : InputOf(a[x], k) = InputOf(b[p[x]], Num(1))
C13_RoasScaleInvariant ==
    HasInsights =>
        \A i, j \in 1..Len(insights.categories) : \A k \in ScaleFactors :
            ScaledCopy(i, j, k) =>
                /\ Entry(i, "roas").z = Entry(j, "roas").z
                /\ Entry(i, "roas").confidence = Entry(j, "roas").confidence
C13_Witness ==
    /\ HasInsights /\ Len(insights.categories) = 3
    /\ \E i, j \in 1..3 :
          /\ i # j /\ ScaledCopy(i, j, Num(10))
          /\ Entry(i, "roas").value = Num(2)
          /\ Entry(i, "roas").z.s = -1 /\ Entry(i, "roas").confidence > 50
          /\ Entry(j, "roas").confidence = Entry(i, "roas").confidence

\* C15: a percent string such as "45%" in conversion_rate is normalized to the
\* fraction 0.45 and not turned into a missing value; a cell that cannot be
\* parsed becomes missing, and the run does not raise.
C15_PercentString ==
    (HasMetrics /\ "conversion_rate" \in sheet.cols) =>
        \A i \in 1..Len(sheet.rows) :
            LET x == sheet.rows[i]["conversion_rate"]
                y == d2c_df.rows[i]["conversion_rate"]
            IN  /\ x.t = "pct" => y = Q(x.n, 100)
                /\ x.t = "str" => isnan(y)

\* ------------------------------------------------- claims on the columns
FindDone == u_call = "find_col" /\ u_ret # <<>>
\* the first position of a set of positions; the two ways a column name
\* matches an alias
FirstOf(S) == CHOOSE k \in S : \A j \in S : k <= j
IgnoringCase(c, a) == str_lower(c) = str_lower(a)
IgnoringCaseAndPadding(c, a) == str_lower(str_strip(c)) = str_lower(a)
\* what find_col returns is the column matching the first candidate that
\* matches a column when case is ignored, and None when no candidate does
FindColFirstAlias ==
    LET columns == u_args[1]
        cands == u_args[2]
        hits == {k \in DOMAIN cands : \E i \in DOMAIN columns : IgnoringCase(columns[i], cands[k])}
        r == u_ret[1]
    IN  IF hits = {} THEN r = NotFound
        ELSE /\ r.found
             /\ \E i \in DOMAIN columns : columns[i] = r.col
             /\ IgnoringCase(r.col, cands[FirstOf(hits)])

\* C16 as stated: for each logical field, the column chosen is the first alias
\* of the field's ordered alias list that matches an input column name
\* case-insensitively (an earlier alias wins over a later one when both are
\* present); with no matching alias the field has no entry in the mapping;
\* the resolver modifies nothing.
C16_FirstAliasIgnoringCase ==
    /\ pc = "RENAME" =>
          /\ \A l \in DOMAIN expected :
                LET hits == {k \in DOMAIN expected[l] :
                                \E c \in sheet.cols : IgnoringCase(c, expected[l][k])}
                IN  IF hits = {} THEN l \notin DOMAIN col_map
                    ELSE l \in DOMAIN col_map /\ col_map[l] = expected[l][FirstOf(hits)]
          /\ d2c_df = NormalizeColumns(sheet)
    /\ FindDone => FindColFirstAlias

\* C16 amended: the script's resolution (lines 64-96) matches an alias against
\* the input column names with the surrounding whitespace trimmed and the
\* case ignored, find_col with the case ignored only; in both the first
\* matching alias of the ordered list wins, a field with no matching alias
\* has no entry (find_col returns None), and the resolution leaves the frame
\* as the normalization of the column names made it.
C16_FirstAliasNormalized ==
    /\ pc = "RENAME" =>
          /\ \A l \in DOMAIN expected :
                LET hits == {k \in DOMAIN expected[l] :
                                \E c \in sheet.cols : IgnoringCaseAndPadding(c, expected[l][k])}
                IN  IF hits = {} THEN l \notin DOMAIN col_map
                    ELSE l \in DOMAIN col_map /\ col_map[l] = expected[l][FirstOf(hits)]
          /\ d2c_df = NormalizeColumns(sheet)
    /\ FindDone => FindColFirstAlias
C16_Witness ==
    /\ pc = "RENAME"
    /\ {"SPEND", "cost_usd", " Clicks ", "segment", "Revenue", "revenue_usd_total"} \subseteq sheet.cols
    /\ col_map["spend_usd"] = "spend" /\ col_map["clicks"] = "clicks"
    /\ col_map["revenue_usd"] = "revenue"
    /\ "seo_category" \notin DOMAIN col_map
    /\ d2c_df.rows[1]["spend"] = Num(100) /\ d2c_df.rows[1]["cost_usd"] = Num(7)

\* C17: a table lacking any subset of the logical fields never aborts the run:
\* the run only warns, materializes an absent count field (impressions,
\* clicks, installs, first_purchase, repeat_purchase) as 0 in every record,
\* every other absent numeric field as missing, an absent seo_category as
\* "Unknown", and still produces the complete insight structure.
Absent(l) ==
    \A k \in DOMAIN expected[l] : \A c \in sheet.cols : NormalizeName(c) # expected[l][k]
category_metrics ==
    {"monthly_search_volume", "avg_position", "conversion_rate", "opportunity_score",
     "total_spend_usd", "total_revenue_usd"}
CompleteInsights ==
    /\ DOMAIN insights.summary = Tracked
    /\ \A i \in 1..Len(insights.categories) :
          /\ DOMAIN insights.categories[i].metrics = category_metrics
          /\ DOMAIN insights.categories[i].confidence = Tracked
          /\ \A m \in Tracked :
                /\ Entry(i, m).confidence \in 50..99
                /\ Entry(i, m).value.t \in {"f", "none"}
C17_AbsentFieldsDefaulted ==
    /\ pc \notin {"LOAD", "MAP", "idle"} /\ excel_exists =>
          missing = {l \in minimal_needed : Absent(l)}
    \* an abort comes from the workbook or from the generator, not from the header
    /\ pc = "ABORTED" =>
          error.type \in (IF excel_exists THEN {"PipelineError", "GenerationError"}
                          ELSE {"FileNotFoundError"})
    /\ HasMetrics =>
          \A i \in 1..Len(d2c_df.rows) :
              /\ \A l \in numeric_cols :
                    /\ d2c_df.rows[i][l].t \in {"f", "nan"}
                    /\ Absent(l) =>
                          d2c_df.rows[i][l] = (IF l \in count_cols THEN Num(0) ELSE NaN)
              /\ Absent("seo_category") => d2c_df.rows[i]["seo_category"] = Unknown
              /\ \A m \in funnel_metrics : d2c_df.rows[i][m].t \in {"f", "nan"}
    /\ HasInsights =>
          /\ CompleteInsights
          /\ Absent("seo_category") =>
                Len(insights.categories) = 1 /\ insights.categories[1].cat = Unknown
C17_Witness ==
    /\ HasInsights
    /\ sheet.cols = AllCols \ {"clicks", "avg_position", "seo_category"}
    /\ missing = {"clicks", "avg_position", "seo_category"}
    /\ d2c_df.rows[1]["clicks"] = Num(0) /\ isnan(d2c_df.rows[1]["avg_position"])
    /\ d2c_df.rows[1]["seo_category"] = Unknown
    /\ insights.categories[1].cat = Unknown
    /\ insights.categories[1].metrics["avg_position"] = None

\* C18: in the final insight structure a value whose upstream inputs are
\* missing is passed through as missing and never appears as zero: a category
\* metric (monthly_search_volume, opportunity_score, total_spend_usd,
\* total_revenue_usd, avg_position, conversion_rate) of a category whose
\* records all have that input missing is reported as missing, not 0.
InputOfMetric(m) ==
    CASE m = "total_spend_usd" -> "spend_usd"
      [] m = "total_revenue_usd" -> "revenue_usd"
      [] OTHER -> m
C18_MissingPassedThrough ==
    HasInsights =>
        \A i \in 1..Len(insights.categories) : \A m \in category_metrics :
            (\A j \in 1..Len(d2c_df.rows) :
                d2c_df.rows[j]["seo_category"] = insights.categories[i].cat
                    => isnan(d2c_df.rows[j][InputOfMetric(m)]))
            => insights.categories[i].metrics[m] = None

\* ------------------------------------------------ claims on the failures
\* C19: when the input dataset file is absent, the run aborts with an error
\* naming the missing file before any table is loaded and before any output
\* file (cleaned CSV, insights JSON, creatives text, report) is written.
C19_MissingFileAborts ==
    (~excel_exists /\ pc # "idle") =>
        /\ pc \in {"LOAD", "ABORTED"}
        /\ d2c_df = NoFrame /\ col_map = <<>> /\ insights = NoInsights
        /\ files = {} /\ creatives = <<>>
        /\ pc = "ABORTED" => error = [type |-> "FileNotFoundError", names |-> EXCEL_PATH]
C19_Witness ==
    /\ ~excel_exists /\ pc = "ABORTED"
    /\ error.type = "FileNotFoundError" /\ error.names = EXCEL_PATH
    /\ files = {} /\ d2c_df = NoFrame

\* C20: a run either completes having produced the complete category insight
\* structure, or fails fast without partial output: whenever a stage of the
\* run fails (load, metric computation, confidence derivation or the
\* text-generation call), none of the run's output files has been written.
OutputFiles == {"CLEANED_CSV", "INSIGHTS_JSON", "CREATIVES_TXT", "REPORT_MD"}
C20_FailFastNoPartialOutput ==
    /\ pc = "ABORTED" => files = {}
    /\ pc = "DONE" => (files = OutputFiles /\ CompleteInsights)

\* C14: a degenerate distribution: when a tracked metric has zero variance
\* over the dataset's non-missing values, or fewer than two non-missing
\* values, the run does not fail and the confidence of that metric is 0.5 for
\* every category.  The column of an entry evaluated in binary64 holds one
\* value in every record.
EntryDone == u_call = "confidence_entry" /\ Len(u_ret) = 2
C14_DegenerateHalf ==
    EntryDone => u_ret[2].confidence = 50

\* ---------------------------------------------------------------- C21
\* the run has passed the loop over the top categories without an exception
LoopOver == pc \in {"REPORT", "DONE"}

\* C21: the generator is called exactly once for each of the first
\* min(3, number of categories) labels of the sorted aggregates, in that
\* order and for no other label; the creatives list has one entry for each
\* call that returned and the creatives file one block for each entry, in
\* the same order; and no call is made before the aggregates are sorted and
\* the insight structure holds an entry for each of them.  A call that
\* raises ends the run with its exception, after the calls before it.
C21_GeneratorCalls ==
    /\ Len(gen_calls) <= 3 /\ Len(gen_calls) <= Len(seo_agg)
    /\ \A i \in 1..Len(gen_calls) : gen_calls[i] = seo_agg[i].seo_category
    /\ Len(creatives) <= Len(gen_calls)
    /\ error = NoError => Len(creatives) = Len(gen_calls)
    /\ \A i \in 1..Len(creatives) : creatives[i].category = gen_calls[i]
    /\ creatives_txt # <<>> => LoopOver
    /\ LoopOver =>
          /\ Len(gen_calls) = (IF Len(seo_agg) < 3 THEN Len(seo_agg) ELSE 3)
          /\ Len(creatives_txt) = Len(creatives)
          /\ \A i \in 1..Len(creatives_txt) :
                /\ creatives_txt[i].category = gen_calls[i]
                /\ creatives_txt[i].text = GeneratedText
    /\ gen_calls # <<>> =>
          /\ pc \in {"GENERATE", "REPORT", "DONE", "ABORTED"}
          /\ seo_agg \in sort_values(GroupAgg(d2c_df.rows))
          /\ Len(insights.categories) = Len(seo_agg)
          /\ \A i \in 1..Len(seo_agg) : insights.categories[i].cat = seo_agg[i].seo_category

\* a finished run over four categories whose scores differ: three calls,
\* in score order and not in label order, and the first label left out
C21_Witness ==
    /\ pc = "DONE"
    /\ Len(seo_agg) = 4
    /\ gen_calls = <<Str(4), Str(2), Str(3)>>
    /\ seo_agg[4].seo_category = Str(1)
    /\ FLess(seo_agg[2].opportunity_score, seo_agg[1].opportunity_score)
    /\ Len(creatives) = 3 /\ Len(creatives_txt) = 3
    /\ creatives[1].raw_output # GeneratedText

=============================================================================
